---- MODULE Spec2Model ----
(***************************************************************************)
(* Model of crytopay.py (CryptoSignalBot): the subscription / payment      *)
(* state machine on the shared store connection self.conn, and the         *)
(* periodic reconciliation jobs.                                           *)
(*                                                                         *)
(* Time is counted in ticks of twelve hours.  The store keeps two views of *)
(* the subscriptions and payments tables: the committed tables and the     *)
(* tables as self.conn sees them (committed rows plus the statements of    *)
(* its open transaction).  The two reconciliation jobs open a connection   *)
(* of their own and therefore read and write the committed tables.  A job  *)
(* is registered once with run_repeating, whose scheduler skips a tick     *)
(* while the previous run of the same job has not returned: a job has at   *)
(* most one run at a time.                                                 *)
(***************************************************************************)
EXTENDS Integers, FiniteSets, Sequences, TLC

\* ------------------------------------------------------------------ bounds
MaxTime == 60
MaxInvoices == 1
MaxPayments == 2
MaxSignals == 2         \* rows ever inserted into table signals
MaxAlerts == 2          \* rows ever inserted into table alerts
MaxTasks == 3           \* live-stream tasks ever created
MaxPositions == 2       \* rows ever inserted into table portfolio
MaxExpTime == 12
MaxWall == 5            \* the last instant of the clock time.time()

\* ------------------------------------------------------- program constants
DayLen == 2            \* timedelta(days=1), in ticks
Month1 == 60           \* relativedelta(months=1), in ticks
Month3 == 180          \* relativedelta(months=3), in ticks
Year1 == 730           \* relativedelta(years=1), in ticks
admin_grant == 0       \* the payment reference "admin_grant" (invoice ids are positive)

Users == {1, 2}
ADMIN_IDS == {1}
Payers == {2}                  \* the users who go through the payment flow
TzOffsets == {0, 1}            \* local time minus UTC of the host, in ticks
ClockSteps == {Month1}
GrantDays == {-1, 1}       \* values of int(days_str) the handler is given

Plans == {"vip_1month", "vip_3months", "vip_1year"}
PlanData == {"vip_1month", "vip_1year", "vip_gold"}   \* callback data the users send

NoPayment == [invoice_id |-> 0, user_id |-> 0, plan |-> "", amount |-> 0,
              duration |-> 0, description |-> ""]

NoConf == [user_id |-> 0, payment_id |-> 0, start_date |-> 0, pay_id |-> 0]

VARIABLES
    now,            \* the current instant, UTC
    tz,             \* the host's local time minus UTC
    subscriptions,  \* committed rows of table subscriptions
    payments,       \* committed rows of table payments
    connSubs,       \* table subscriptions as self.conn sees it
    connPays,       \* table payments as self.conn sees it
    nextInvoice,    \* the payment gateway: the id of the next invoice it creates
    pending,        \* context.user_data['pending_payment'] of each user
    failed,         \* the last confirmation that ended in the except branch
    last,           \* the handler that ran last, its arguments and its reply
    signals,        \* committed rows of table signals
    nextSignalId,   \* AUTOINCREMENT counter of table signals
    sigRun,         \* the run of check_signal_outcomes: its position and locals
    alerts,         \* committed rows of table alerts
    nextAlertId,    \* AUTOINCREMENT counter of table alerts
    alertRun,       \* the run of check_alerts: its position and locals
    active_streams, \* self.active_streams: the task registered for each user
    tasks,          \* the live-stream tasks created so far
    nextTask,       \* the number of live-stream tasks created so far, plus one
    users,          \* rows of table users
    portfolio,      \* rows of table portfolio
    nextPositionId, \* AUTOINCREMENT of portfolio.id
    call,           \* the market-data command being handled under retry_api
    wall,           \* time.time()
    calls,          \* the list calls of the rate_limit wrapper of price_history
    entered,        \* history: the times at which that handler was entered
    expRun,         \* the run of check_subscription_expirations
    reminded        \* history: the terms whose reminder was delivered

vars == <<now, tz, subscriptions, payments, connSubs, connPays,
          nextInvoice, pending, failed, last,
          signals, nextSignalId, sigRun, alerts, nextAlertId, alertRun,
          active_streams, tasks, nextTask, users, portfolio, nextPositionId,
          call, wall, calls, entered, expRun, reminded>>

storeVars == <<subscriptions, payments, connSubs, connPays>>
sigVars == <<signals, nextSignalId, sigRun>>
alertVars == <<alerts, nextAlertId, alertRun>>
streamVars == <<active_streams, tasks, nextTask>>
userVars == <<users>>
portVars == <<portfolio, nextPositionId>>
callVars == <<call>>
rateVars == <<wall, calls, entered>>
expVars == <<expRun, reminded>>
tailVars == <<callVars, rateVars, expVars>>
\* the variables of the payment flow, the signals and the alerts, and the
\* market-data command
baseVars ==
    <<now, tz, storeVars, nextInvoice, pending, failed, sigVars, alertVars,
      tailVars>>
\* the variables the payment flow, the signal and alert handlers and the two
\* jobs never touch
extVars == <<streamVars, userVars, portVars, tailVars>>
\* the variables the market-data handlers never touch
restVars ==
    <<now, tz, storeVars, nextInvoice, pending, failed, sigVars, alertVars,
      streamVars, userVars, portVars, rateVars, expVars>>
\* the variables the rate_limit wrapper never touches
unrateVars ==
    <<now, tz, storeVars, nextInvoice, pending, failed, sigVars, alertVars,
      streamVars, userVars, portVars, callVars, expVars>>
\* the variables check_subscription_expirations never touches, but the store
unexpVars ==
    <<now, tz, nextInvoice, pending, failed, sigVars, alertVars,
      streamVars, userVars, portVars, callVars, rateVars>>

\* a price mapping without entries
NoPrices == [s \in {} |-> 0]

Op(op, user, n, reply) ==
    [op |-> op, user |-> user, n |-> n, arg |-> "", reply |-> reply,
     prices |-> NoPrices]
OpArg(op, user, arg, reply) ==
    [op |-> op, user |-> user, n |-> 0, arg |-> arg, reply |-> reply,
     prices |-> NoPrices]
\* a step of a job: n rows in its snapshot, the price mapping it works with
JobOp(op, n, reply, prices) ==
    [op |-> op, user |-> 0, n |-> n, arg |-> "", reply |-> reply,
     prices |-> prices]

\* ------------------------------------------------------------------ clocks
\* datetime.now(): naive local wall-clock time of the host
datetime_now == now + tz
\* SQLite datetime('now'): UTC
sql_now == now

\* ------------------------------------------------------------------- plans
Amount(plan) ==
    CASE plan = "vip_1month" -> 20 [] plan = "vip_3months" -> 50 [] OTHER -> 180
Description(plan) ==
    CASE plan = "vip_1month" -> "1 Month VIP"
      [] plan = "vip_3months" -> "3 Months VIP"
      [] OTHER -> "1 Year VIP"
Duration(plan) ==
    CASE plan = "vip_1month" -> Month1 [] plan = "vip_3months" -> Month3
      [] OTHER -> Year1

\* ------------------------------------------------------------------- store
\* INSERT OR REPLACE INTO subscriptions: user_id is the primary key, the
\* column notified is not listed and takes its default 0
\* (variant: a plain INSERT without the replace)
InsertOrReplaceAdd(table, row) == table \cup {row}
InsertOrReplace(table, row) ==
    {r \in table : r.user_id # row.user_id} \cup {row}

SubscriptionRow(user_id, tier, start_date, end_date, payment_id) ==
    [user_id |-> user_id, tier |-> tier, start_date |-> start_date,
     end_date |-> end_date, payment_id |-> payment_id, notified |-> 0]

\* INSERT INTO payments: id INTEGER PRIMARY KEY AUTOINCREMENT (rows of this
\* table are never deleted, so the next id is the row count plus one)
PaymentRow(table, user_id, amount, payment_id, plan) ==
    [id |-> Cardinality(table) + 1, user_id |-> user_id, amount |-> amount,
     status |-> "completed", payment_id |-> payment_id, plan |-> plan]

\* self.conn.commit(): the connection's view becomes the committed state
Commit(subs, pays) ==
    /\ subscriptions' = subs
    /\ payments' = pays
    /\ connSubs' = subs
    /\ connPays' = pays

\* self.conn holds statements that are not committed
inTxn == connSubs # subscriptions \/ connPays # payments

\* the locals of a job that is not running
SigIdle == [pc |-> "idle", active_signals |-> <<>>]
AlertIdle == [pc |-> "idle", alerts |-> <<>>, current_prices |-> NoPrices, i |-> 0]
\* a live-stream task that was not created yet
NoCall ==
    [op |-> "", user |-> 0, attempt |-> 0, pc |-> "idle", api_calls |-> 0,
     api_failed |-> FALSE, sleeps |-> 0, last_exception |-> 0]
ExpIdle == [pc |-> "idle", expiring_subs |-> <<>>, i |-> 0]
NoTask == [user |-> 0, pc |-> "none", cancel |-> FALSE, exit |-> ""]

\* ---------------------------------------------------------------- Init
Init ==
    /\ now = 0
    /\ tz \in TzOffsets
    /\ subscriptions = {}
    /\ payments = {}
    /\ connSubs = {}
    /\ connPays = {}
    /\ nextInvoice = 1
    /\ pending = [u \in Users |-> NoPayment]
    /\ failed = NoConf
    /\ last = Op("init", 0, 0, "")
    /\ signals = {}
    /\ nextSignalId = 1
    /\ sigRun = SigIdle
    /\ alerts = {}
    /\ nextAlertId = 1
    /\ alertRun = AlertIdle
    /\ active_streams = [u \in Users |-> 0]
    /\ tasks = [t \in 1..MaxTasks |-> NoTask]
    /\ nextTask = 1
    /\ users = {}
    /\ portfolio = {}
    /\ nextPositionId = 1
    /\ call = NoCall
    /\ wall = 0
    /\ calls = <<>>
    /\ entered = <<>>
    /\ expRun = ExpIdle
    /\ reminded = {}

\* ------------------------------------------------- the payment gateway
\* what getInvoices answers: no answer (check_invoice returns None), or the
\* invoice with its status
InvoiceAnswers == {"none", "active", "paid", "expired"}

\* ------------------------------------------------------ _handle_payment_selection
handle_payment_selection(u, plan, created) ==
    /\ UNCHANGED <<extVars, now, tz, storeVars, failed, sigVars, alertVars>>
    /\ IF plan \notin Plans
       THEN /\ last' = Op("handle_payment_selection", u, 0, "Invalid plan.")
            /\ UNCHANGED <<nextInvoice, pending>>
       ELSE IF ~created
       THEN /\ last' = Op("handle_payment_selection", u, 0,
                          "Payment processing failed.")
            /\ UNCHANGED <<nextInvoice, pending>>
       ELSE /\ nextInvoice <= MaxInvoices
            /\ LET id == nextInvoice
               IN /\ nextInvoice' = nextInvoice + 1
                  /\ pending' = [pending EXCEPT ![u] =
                        [invoice_id |-> id, user_id |-> u, plan |-> plan,
                         amount |-> Amount(plan), duration |-> Duration(plan),
                         description |-> Description(plan)]]
                  /\ last' = Op("handle_payment_selection", u, 0, "Pay Now")

\* ------------------------------------------------------ _check_payment_status
\* what the two execute() calls and the commit() may do
StoreOutcomes ==
    {"ok",
     "upsert_error",            \* the first execute raises
     "insert_error",            \* the second execute raises, its statement is undone
     "insert_error_rollback",   \* the second execute raises, the engine rolls back
     "commit_error"}            \* commit raises, the transaction stays open

\* invoice['status'] == 'paid' (variant: every status but expired)
IsPaidLoose(invoice) == invoice # "expired"
IsPaid(invoice) == invoice = "paid"

\* end_date = start_date + timedelta(days=payment_data['duration']), whatever
\* row the user has (variant: a running term is extended from its end)
TermEndExtend(table, user_id, start_date, duration) ==
    IF \E r \in table : r.user_id = user_id /\ r.end_date >= start_date
    THEN (CHOOSE r \in table : r.user_id = user_id).end_date + duration
    ELSE start_date + duration
TermEnd(table, user_id, start_date, duration) == start_date + duration

check_payment_status(u, answer, outcome) ==
    LET payment_data == pending[u]
        invoice == answer
        user_id == payment_data.user_id
        start_date == datetime_now
        end_date == TermEnd(connSubs, user_id, start_date, payment_data.duration)
        sub == SubscriptionRow(user_id, payment_data.description, start_date,
                               end_date, payment_data.invoice_id)
        subs == InsertOrReplace(connSubs, sub)
        pays == connPays \cup {PaymentRow(connPays, user_id, payment_data.amount,
                                          payment_data.invoice_id, payment_data.plan)}
        \* history: this confirmation, when its subscription row is not one
        \* that an earlier confirmation committed
        conf == IF sub \in subscriptions THEN NoConf
                ELSE [user_id |-> user_id, payment_id |-> payment_data.invoice_id,
                      start_date |-> start_date,
                      pay_id |-> Cardinality(connPays) + 1]
    IN
    /\ UNCHANGED <<extVars, now, tz, nextInvoice, pending, sigVars, alertVars>>
    /\ IF payment_data = NoPayment
       THEN /\ last' = OpArg("check_payment_status", u, "", "No pending payment found.")
            /\ UNCHANGED <<storeVars, failed>>
       ELSE IF invoice = "none"
       THEN /\ last' = OpArg("check_payment_status", u, invoice,
                                    "Could not verify payment.")
            /\ UNCHANGED <<storeVars, failed>>
       ELSE IF IsPaid(invoice)
       THEN /\ Cardinality(connPays) < MaxPayments
            /\ CASE outcome = "ok" ->
                      /\ Commit(subs, pays)
                      /\ failed' = IF failed.user_id = user_id /\ failed.payment_id = payment_data.invoice_id
                                 THEN NoConf ELSE failed
                      /\ last' = OpArg("check_payment_status", u, invoice,
                                    "Payment confirmed!")
                 [] outcome = "upsert_error" ->
                      /\ UNCHANGED storeVars
                      /\ failed' = conf
                      /\ last' = OpArg("check_payment_status", u, invoice,
                                    "Error processing subscription.")
                 [] outcome = "insert_error" ->
                      /\ connSubs' = subs
                      /\ UNCHANGED <<subscriptions, payments, connPays>>
                      /\ failed' = conf
                      /\ last' = OpArg("check_payment_status", u, invoice,
                                    "Error processing subscription.")
                 [] outcome = "insert_error_rollback" ->
                      /\ connSubs' = subscriptions
                      /\ connPays' = payments
                      /\ UNCHANGED <<subscriptions, payments>>
                      /\ failed' = conf
                      /\ last' = OpArg("check_payment_status", u, invoice,
                                    "Error processing subscription.")
                 [] OTHER ->
                      /\ connSubs' = subs
                      /\ connPays' = pays
                      /\ UNCHANGED <<subscriptions, payments>>
                      /\ failed' = conf
                      /\ last' = OpArg("check_payment_status", u, invoice,
                                    "Error processing subscription.")
       ELSE /\ last' = OpArg("check_payment_status", u, invoice,
                                    "Payment status")
            /\ UNCHANGED <<storeVars, failed>>

\* ------------------------------------------------------------------ vip_grant
\* form: how context.args parse ("usage": not two arguments, "ValueError":
\* int() raises, "ok": user_id and days are integers).  After the commit the
\* handler replies and messages the target user; a failure of that message
\* only adds the reply "Could not grant VIP access."
GrantForms == {"usage", "ValueError", "ok"}

vip_grant(admin, form, user_id, days) ==
    LET start_date == datetime_now
        end_date == start_date + days * DayLen
        sub == SubscriptionRow(user_id, "VIP Grant", start_date, end_date, admin_grant)
    IN
    /\ admin \in ADMIN_IDS
    /\ UNCHANGED <<extVars, now, tz, nextInvoice, pending, failed, sigVars, alertVars>>
    /\ CASE form = "usage" ->
              /\ last' = Op("vip_grant", admin, 0, "Usage")
              /\ UNCHANGED storeVars
         [] form = "ValueError" ->
              /\ last' = Op("vip_grant", admin, 0,
                            "Invalid User ID or number of days.")
              /\ UNCHANGED storeVars
         [] OTHER ->
              /\ Commit(InsertOrReplace(connSubs, sub), connPays)
              /\ last' = Op("vip_grant", user_id, days, "Granted")

\* ---------------------------------------------------------- _check_vip_status
\* SELECT 1 FROM subscriptions WHERE user_id = ? AND
\*   datetime(end_date) >= datetime('now'), on self.conn
ActiveRowExists(user_id) ==
    \E r \in connSubs : r.user_id = user_id /\ r.end_date >= sql_now

\* _prompt_vip_upgrade: "This feature requires VIP access. Upgrade now!"
UpgradePrompt == "VIP Feature Locked"

\* (variant: without the admin test of line 1385)
VipStatusNoAdmin(user_id, readOk) ==
    IF ~readOk THEN FALSE ELSE ActiveRowExists(user_id)
VipStatus(user_id, readOk) ==
    IF user_id \in ADMIN_IDS THEN TRUE
    ELSE IF ~readOk THEN FALSE
    ELSE ActiveRowExists(user_id)

check_vip_status(u, readOk) ==
    /\ last' = Op("check_vip_status", u, IF readOk THEN 1 ELSE 0,
                  IF VipStatus(u, readOk) THEN "True" ELSE "False")
    /\ UNCHANGED <<extVars, now, tz, storeVars, nextInvoice, pending, failed,
                   sigVars, alertVars>>

\* --------------------------------------------------------------------- time
Tick(d) ==
    /\ now + d <= MaxTime
    /\ now' = now + d
    /\ last' = Op("tick", 0, 0, "")
    /\ UNCHANGED <<extVars, tz, storeVars, nextInvoice, pending, failed,
                   sigVars, alertVars>>

\* ------------------------------------------- the subscription state machine
NextSub ==
    \/ \E u \in Payers, plan \in PlanData : handle_payment_selection(u, plan, TRUE)
    \/ \E u \in Payers : handle_payment_selection(u, "vip_1month", FALSE)
    \/ \E u \in Payers, answer \in InvoiceAnswers \ {"paid"} :
          check_payment_status(u, answer, "ok")
    \/ \E u \in Payers, outcome \in StoreOutcomes :
          check_payment_status(u, "paid", outcome)
    \/ \E a \in ADMIN_IDS, form \in GrantForms \ {"ok"} : vip_grant(a, form, 0, 0)
    \/ \E a \in ADMIN_IDS, u \in Users, d \in GrantDays : vip_grant(a, "ok", u, d)
    \/ \E u \in Users, readOk \in BOOLEAN : check_vip_status(u, readOk)
    \/ \E d \in ClockSteps : Tick(d)

SpecSub == Init /\ [][NextSub]_vars

\* the jobs and the handlers of their tables do not read the clock
InitJobs == Init /\ tz = 0

\* =================================================================== signals
Symbols == {"BTCUSDT", "ETHUSDT"}
Prices == {89, 90, 105, 110, 111}

\* str.upper() and str.lower() on the words the handlers are given
Upper(s) ==
    CASE s = "btcusdt" -> "BTCUSDT" [] s = "ethusdt" -> "ETHUSDT" [] OTHER -> s
Lower(s) ==
    CASE s = "LONG" -> "long" [] s = "BELOW" -> "below" [] s = "VIP" -> "vip"
      [] OTHER -> s

\* argument lists of /addsignal: <pair> <dir> <entry> <tp> <sl> [vip]
SignalArgs ==
    {<<"btcusdt", "LONG", 100, 110, 90, "VIP">>,
     <<"BTCUSDT", "short", 100, 90, 110>>,
     <<"ETHUSDT", "long", 100, 90, 110>>,
     <<"ETHUSDT", "short", 100, 110, 90>>,
     <<"ETHUSDT", "buy", 100, 110, 90>>}

\* how an argument list parses: "usage" (too few arguments), "ValueError"
\* (a float() or int() raises), "ok"
ArgForms == {"usage", "ValueError", "ok"}

\* INSERT INTO signals (pair, direction, entry_price, target_price, stop_loss,
\* is_vip): id is AUTOINCREMENT, hit_target takes its default 0
SignalRow(id, args) ==
    [id |-> id, pair |-> Upper(args[1]), direction |-> Lower(args[2]),
     entry_price |-> args[3], target_price |-> args[4], stop_loss |-> args[5],
     is_vip |-> IF Len(args) > 5 /\ Lower(args[6]) = "vip" THEN 1 ELSE 0,
     hit_target |-> 0]

\* ------------------------------------------------------------------ add_signal
add_signal(form, args) ==
    /\ UNCHANGED <<extVars, now, tz, nextInvoice, pending, failed, sigRun, alertVars>>
    /\ CASE form = "usage" ->
              /\ last' = Op("add_signal", 0, 0, "Usage")
              /\ UNCHANGED <<storeVars, signals, nextSignalId>>
         [] form = "ValueError" ->
              /\ last' = Op("add_signal", 0, 0, "Failed to add signal")
              /\ UNCHANGED <<storeVars, signals, nextSignalId>>
         [] OTHER ->
              /\ nextSignalId <= MaxSignals
              /\ signals' = signals \cup {SignalRow(nextSignalId, args)}
              /\ nextSignalId' = nextSignalId + 1
              /\ Commit(connSubs, connPays)
              /\ last' = Op("add_signal", 0, nextSignalId, "Signal added")

\* --------------------------------------------------------------- delete_signal
delete_signal(form, signal_id) ==
    /\ UNCHANGED <<extVars, now, tz, nextInvoice, pending, failed, nextSignalId, sigRun,
                   alertVars>>
    /\ CASE form = "usage" ->
              /\ last' = Op("delete_signal", 0, 0, "Usage")
              /\ UNCHANGED <<storeVars, signals>>
         [] form = "ValueError" ->
              /\ last' = Op("delete_signal", 0, 0, "Invalid signal ID.")
              /\ UNCHANGED <<storeVars, signals>>
         [] OTHER ->
              /\ signals' = {s \in signals : s.id # signal_id}
              /\ Commit(connSubs, connPays)
              /\ last' = Op("delete_signal", 0, signal_id,
                            IF \E s \in signals : s.id = signal_id
                            THEN "deleted" ELSE "No signal found")

\* ------------------------------------------------------- check_signal_outcomes
\* the rows of a SELECT, in rowid order
RECURSIVE SortById(_)
SortById(rows) ==
    IF rows = {} THEN <<>>
    ELSE LET m == CHOOSE x \in rows : \A y \in rows : x.id <= y.id
         IN <<m>> \o SortById(rows \ {m})

\* SELECT ... FROM signals WHERE hit_target = 0
\* (variant: the same read without its WHERE clause)
ActiveSignalsAll(table) == table
ActiveSignals(table) == {s \in table : s.hit_target = 0}

\* list(set([s['pair'] for s in active_signals]))
PairsOf(rows) == {rows[i].pair : i \in 1..Len(rows)}

\* what the batched price request answers: a mapping from some of the
\* requested symbols to their price (a symbol may be omitted)
PriceMaps(symbols) == UNION {[S -> Prices] : S \in SUBSET symbols}

\* hit_status of one signal at current_price (variants: with strict
\* comparisons; with the stop comparison first)
HitStatusStrict(direction, current_price, target_price, stop_loss) ==
    IF direction = "long"
    THEN IF current_price > target_price THEN 1
         ELSE IF current_price < stop_loss THEN -1 ELSE 0
    ELSE IF direction = "short"
    THEN IF current_price < target_price THEN 1
         ELSE IF current_price > stop_loss THEN -1 ELSE 0
    ELSE 0
HitStatusStopFirst(direction, current_price, target_price, stop_loss) ==
    IF direction = "long"
    THEN IF current_price <= stop_loss THEN -1
         ELSE IF current_price >= target_price THEN 1 ELSE 0
    ELSE IF direction = "short"
    THEN IF current_price >= stop_loss THEN -1
         ELSE IF current_price <= target_price THEN 1 ELSE 0
    ELSE 0
HitStatus(direction, current_price, target_price, stop_loss) ==
    IF direction = "long"
    THEN IF current_price >= target_price THEN 1
         ELSE IF current_price <= stop_loss THEN -1 ELSE 0
    ELSE IF direction = "short"
    THEN IF current_price <= target_price THEN 1
         ELSE IF current_price >= stop_loss THEN -1 ELSE 0
    ELSE 0

\* UPDATE signals SET hit_target = ? WHERE id = ?, then commit
UpdateHitTarget(table, hit_status, id) ==
    {IF r.id = id THEN [r EXCEPT !.hit_target = hit_status] ELSE r : r \in table}

\* the for loop over active_signals, from position i on; it has no await
\* (variant: a missing pair ends the loop)
RECURSIVE SignalLoopBreak(_, _, _, _)
SignalLoopBreak(active_signals, i, current_prices, table) ==
    IF i > Len(active_signals) THEN table
    ELSE LET signal == active_signals[i]
             hit_status == HitStatus(signal.direction, current_prices[signal.pair],
                                     signal.target_price, signal.stop_loss)
         IN IF signal.pair \notin DOMAIN current_prices THEN table
            ELSE SignalLoopBreak(active_signals, i + 1, current_prices,
                    IF hit_status # 0
                    THEN UpdateHitTarget(table, hit_status, signal.id)
                    ELSE table)
RECURSIVE SignalLoop(_, _, _, _)
SignalLoop(active_signals, i, current_prices, table) ==
    IF i > Len(active_signals) THEN table
    ELSE LET signal == active_signals[i]
             hit_status == HitStatus(signal.direction, current_prices[signal.pair],
                                     signal.target_price, signal.stop_loss)
         IN IF signal.pair \notin DOMAIN current_prices
            THEN SignalLoop(active_signals, i + 1, current_prices, table)
            ELSE SignalLoop(active_signals, i + 1, current_prices,
                    IF hit_status # 0
                    THEN UpdateHitTarget(table, hit_status, signal.id)
                    ELSE table)

\* the run reads the open signals; without any it returns, else it sends the
\* price request and is suspended in it
check_signal_outcomes_start ==
    LET active_signals == SortById(ActiveSignals(signals))
    IN /\ sigRun.pc = "idle"
       /\ IF active_signals = <<>>
          THEN /\ sigRun' = SigIdle
               /\ last' = JobOp("check_signal_outcomes", 0, "return", NoPrices)
          ELSE /\ sigRun' = [pc |-> "fetch", active_signals |-> active_signals]
               /\ last' = JobOp("check_signal_outcomes", Len(active_signals),
                                "fetch", NoPrices)
       /\ UNCHANGED <<extVars, now, tz, storeVars, nextInvoice, pending, failed,
                      signals, nextSignalId, alertVars>>

\* the price request raises: the run logs and returns
check_signal_outcomes_fetch_failed ==
    /\ sigRun.pc = "fetch"
    /\ sigRun' = SigIdle
    /\ last' = JobOp("check_signal_outcomes", Len(sigRun.active_signals),
                     "Failed to fetch prices", NoPrices)
    /\ UNCHANGED <<extVars, now, tz, storeVars, nextInvoice, pending, failed,
                   signals, nextSignalId, alertVars>>

\* the price request answers: the run resumes and goes through its snapshot
check_signal_outcomes_resume(current_prices) ==
    /\ sigRun.pc = "fetch"
    /\ current_prices \in PriceMaps(PairsOf(sigRun.active_signals))
    /\ signals' = SignalLoop(sigRun.active_signals, 1, current_prices, signals)
    /\ sigRun' = SigIdle
    /\ last' = JobOp("check_signal_outcomes", Len(sigRun.active_signals),
                     "done", current_prices)
    /\ UNCHANGED <<extVars, now, tz, storeVars, nextInvoice, pending, failed,
                   nextSignalId, alertVars>>

SignalIds == 1..MaxSignals

NextSig ==
    \/ \E form \in ArgForms \ {"ok"} : add_signal(form, <<>>)
    \/ \E args \in SignalArgs : add_signal("ok", args)
    \/ \E form \in ArgForms \ {"ok"} : delete_signal(form, 0)
    \/ \E id \in SignalIds : delete_signal("ok", id)
    \/ check_signal_outcomes_start
    \/ check_signal_outcomes_fetch_failed
    \/ \E S \in SUBSET Symbols : \E current_prices \in [S -> Prices] :
          check_signal_outcomes_resume(current_prices)

SpecSig == InitJobs /\ [][NextSig]_vars

\* ==================================================================== alerts
\* argument lists of /setalert: <SYMBOL> <price> <above|below>
AlertArgs ==
    {<<"btcusdt", 110, "above">>,
     <<"BTCUSDT", 90, "BELOW">>,
     <<"ETHUSDT", 110, "above">>,
     <<"ETHUSDT", 90, "over">>}

\* INSERT INTO alerts (user_id, symbol, target_price, direction)
AlertRow(id, user_id, args) ==
    [id |-> id, user_id |-> user_id, symbol |-> Upper(args[1]),
     target_price |-> args[2], direction |-> Lower(args[3])]

\* id INTEGER PRIMARY KEY AUTOINCREMENT: the id of a new row is one more than
\* the largest id the table ever held (variant: a plain INTEGER PRIMARY KEY,
\* one more than the largest id in the table now)
NewAlertIdRowid(table, counter) ==
    IF table = {} THEN 1
    ELSE (CHOOSE a \in table : \A b \in table : b.id <= a.id).id + 1
NewAlertId(table, counter) == counter

\* ------------------------------------------------------------------- set_alert
\* (check_banned_status is applied where the handlers are routed)
set_alert(u, readOk, form, args) ==
    /\ UNCHANGED <<extVars, now, tz, nextInvoice, pending, failed, sigVars, alertRun>>
    /\ IF ~VipStatus(u, readOk)
       THEN /\ last' = Op("set_alert", u, 0, UpgradePrompt)
            /\ UNCHANGED <<storeVars, alerts, nextAlertId>>
       ELSE CASE form = "usage" ->
                 /\ last' = Op("set_alert", u, 0, "Usage")
                 /\ UNCHANGED <<storeVars, alerts, nextAlertId>>
            [] form = "ValueError" \/ Lower(args[3]) \notin {"above", "below"} ->
                 /\ last' = Op("set_alert", u, 0, "Invalid format.")
                 /\ UNCHANGED <<storeVars, alerts, nextAlertId>>
            [] OTHER ->
                 /\ nextAlertId <= MaxAlerts
                 /\ alerts' = alerts \cup
                        {AlertRow(NewAlertId(alerts, nextAlertId), u, args)}
                 /\ nextAlertId' = nextAlertId + 1
                 /\ Commit(connSubs, connPays)
                 /\ last' = Op("set_alert", u, NewAlertId(alerts, nextAlertId),
                               "Alert set")

\* DELETE FROM <table> WHERE id = ? AND user_id = ?
\* (variant: WHERE id = ?)
DeleteById(table, id, user_id) == {r \in table : r.id # id}
DeleteOwned(table, id, user_id) ==
    {r \in table : ~(r.id = id /\ r.user_id = user_id)}

\* ---------------------------------------------------------------- remove_alert
\* DELETE FROM alerts WHERE id = ? AND user_id = ?
remove_alert(u, readOk, form, alert_id) ==
    /\ UNCHANGED <<extVars, now, tz, nextInvoice, pending, failed, sigVars, nextAlertId,
                   alertRun>>
    /\ IF ~VipStatus(u, readOk)
       THEN /\ last' = Op("remove_alert", u, 0, UpgradePrompt)
            /\ UNCHANGED <<storeVars, alerts>>
       ELSE CASE form = "usage" ->
                 /\ last' = Op("remove_alert", u, 0, "Usage")
                 /\ UNCHANGED <<storeVars, alerts>>
            [] form = "ValueError" ->
                 /\ last' = Op("remove_alert", u, 0, "Invalid ID.")
                 /\ UNCHANGED <<storeVars, alerts>>
            [] OTHER ->
                 /\ alerts' = DeleteOwned(alerts, alert_id, u)
                 /\ Commit(connSubs, connPays)
                 /\ last' = Op("remove_alert", u, alert_id,
                               IF \E a \in alerts : a.id = alert_id /\ a.user_id = u
                               THEN "removed" ELSE "Alert not found")

\* ---------------------------------------------------------------- check_alerts
\* list(set([alert['symbol'] for alert in alerts]))
SymbolsOf(rows) == {rows[i].symbol : i \in 1..Len(rows)}

\* (variant: with the comparisons >= and <=)
TriggeredLoose(direction, current_price, target_price) ==
    \/ direction = "above" /\ current_price >= target_price
    \/ direction = "below" /\ current_price <= target_price
Triggered(direction, current_price, target_price) ==
    \/ direction = "above" /\ current_price > target_price
    \/ direction = "below" /\ current_price < target_price

\* the for loop over alerts from position i on, up to the next await: the
\* position of the next alert whose notification is sent, Len + 1 without one
RECURSIVE AlertLoop(_, _, _)
AlertLoop(rows, i, current_prices) ==
    IF i > Len(rows) THEN i
    ELSE IF rows[i].symbol \notin DOMAIN current_prices
    THEN AlertLoop(rows, i + 1, current_prices)
    ELSE IF Triggered(rows[i].direction, current_prices[rows[i].symbol],
                      rows[i].target_price)
    THEN i
    ELSE AlertLoop(rows, i + 1, current_prices)

\* the run after its loop reached position i: suspended in send_message for
\* the alert at i, or returned
AlertRunAt(rows, i, current_prices) ==
    IF i > Len(rows) THEN AlertIdle
    ELSE [pc |-> "send", alerts |-> rows, current_prices |-> current_prices,
          i |-> i]

\* the run reads all alerts; without any it returns, else it sends the price
\* request and is suspended in it
check_alerts_start ==
    LET rows == SortById(alerts)
    IN /\ alertRun.pc = "idle"
       /\ IF rows = <<>>
          THEN /\ alertRun' = AlertIdle
               /\ last' = JobOp("check_alerts", 0, "return", NoPrices)
          ELSE /\ alertRun' = [pc |-> "fetch", alerts |-> rows,
                               current_prices |-> NoPrices, i |-> 0]
               /\ last' = JobOp("check_alerts", Len(rows), "fetch", NoPrices)
       /\ UNCHANGED <<extVars, now, tz, storeVars, nextInvoice, pending, failed,
                      sigVars, alerts, nextAlertId>>

\* the price request raises: the run logs and returns
check_alerts_fetch_failed ==
    /\ alertRun.pc = "fetch"
    /\ alertRun' = AlertIdle
    /\ last' = JobOp("check_alerts", Len(alertRun.alerts),
                     "Failed to fetch prices", NoPrices)
    /\ UNCHANGED <<extVars, now, tz, storeVars, nextInvoice, pending, failed,
                   sigVars, alerts, nextAlertId>>

\* the price request answers: the run resumes and loops up to the first
\* alert it notifies
check_alerts_resume(current_prices) ==
    /\ alertRun.pc = "fetch"
    /\ current_prices \in PriceMaps(SymbolsOf(alertRun.alerts))
    /\ alertRun' = AlertRunAt(alertRun.alerts,
                              AlertLoop(alertRun.alerts, 1, current_prices),
                              current_prices)
    /\ last' = JobOp("check_alerts", Len(alertRun.alerts), "prices",
                     current_prices)
    /\ UNCHANGED <<extVars, now, tz, storeVars, nextInvoice, pending, failed,
                   sigVars, alerts, nextAlertId>>

\* DELETE FROM alerts WHERE id = ? and commit, after send_message in the same
\* try (variant: the delete outside the try)
AfterSendAlways(table, alert, delivered) == {a \in table : a.id # alert.id}
AfterSend(table, alert, delivered) ==
    IF delivered THEN {a \in table : a.id # alert.id} ELSE table

\* send_message returns (the row is deleted and the delete committed) or
\* raises (logged); the loop goes on to the next alert it notifies
check_alerts_sent(delivered) ==
    LET alert == alertRun.alerts[alertRun.i]
    IN /\ alertRun.pc = "send"
       /\ alerts' = AfterSend(alerts, alert, delivered)
       /\ alertRun' = AlertRunAt(alertRun.alerts,
                        AlertLoop(alertRun.alerts, alertRun.i + 1,
                                  alertRun.current_prices),
                        alertRun.current_prices)
       /\ last' = [op |-> "send_message", user |-> alert.user_id,
                   n |-> alert.id, arg |-> "",
                   reply |-> IF delivered THEN "delivered" ELSE "raised",
                   prices |-> alertRun.current_prices]
       /\ UNCHANGED <<extVars, now, tz, storeVars, nextInvoice, pending, failed,
                      sigVars, nextAlertId>>

AlertIds == 1..MaxAlerts
AlertPrices == {89, 90, 110, 111}      \* the prices the alert runs are answered

NextAlerts ==
    \/ \E u \in Users, readOk \in BOOLEAN, form \in ArgForms \ {"ok"} :
          set_alert(u, readOk, form, <<"", 0, "above">>)
    \/ \E u \in Users, args \in AlertArgs : set_alert(u, TRUE, "ok", args)
    \/ \E u \in Users, readOk \in BOOLEAN, form \in ArgForms \ {"ok"} :
          remove_alert(u, readOk, form, 0)
    \/ \E u \in Users, id \in AlertIds : remove_alert(u, TRUE, "ok", id)
    \/ check_alerts_start
    \/ check_alerts_fetch_failed
    \/ \E S \in SUBSET Symbols : \E current_prices \in [S -> AlertPrices] :
          check_alerts_resume(current_prices)
    \/ \E delivered \in BOOLEAN : check_alerts_sent(delivered)

SpecAlerts == InitJobs /\ [][NextAlerts]_vars

\* =================================================================== streams
\* A task is the coroutine _websocket_handler(user_id, symbol) that
\* asyncio.create_task started.  pc is the await it is suspended in:
\*   "new"      created, its first step not yet run
\*   "connect"  entering async with websockets.connect(uri)
\*   "greet"    send_message("Live stream started")
\*   "loop"     inside while True (recv, sleep or send_message)
\*   "close"    leaving the async with block: the connection is being closed
\*   "report"   send_message("Failed to start live stream") in except Exception
\*   "done"     returned
\* cancel: task.cancel() was called and CancelledError is not yet thrown into
\* the coroutine.  exit: the path on which the task leaves its try block.
TaskIds == 1..MaxTasks

\* finally: if user_id in self.active_streams: del self.active_streams[user_id]
\* (variant: without the finally clause)
FinallyKeep(streams, user_id) == streams
Finally(streams, user_id) == [streams EXCEPT ![user_id] = 0]

\* task.cancel() schedules the throw of CancelledError for the next turn of
\* the event loop, while stop_stream is still awaiting its reply; updates
\* are handled one at a time, so no handler starts before that throw
NoCancelPending == \A t \in TaskIds : ~tasks[t].cancel

\* ------------------------------------------------------------------ livestream
livestream(u, readOk, hasArgs) ==
    /\ NoCancelPending
    /\ UNCHANGED <<baseVars, userVars, portVars>>
    /\ IF ~VipStatus(u, readOk)
       THEN /\ last' = Op("livestream", u, 0, UpgradePrompt)
            /\ UNCHANGED streamVars
       ELSE IF active_streams[u] # 0
       THEN /\ last' = Op("livestream", u, 0, "You already have an active stream.")
            /\ UNCHANGED streamVars
       ELSE IF ~hasArgs
       THEN /\ last' = Op("livestream", u, 0, "Usage")
            /\ UNCHANGED streamVars
       ELSE /\ nextTask <= MaxTasks
            /\ tasks' = [tasks EXCEPT ![nextTask] =
                            [user |-> u, pc |-> "new", cancel |-> FALSE, exit |-> ""]]
            /\ active_streams' = [active_streams EXCEPT ![u] = nextTask]
            /\ nextTask' = nextTask + 1
            /\ last' = Op("livestream", u, nextTask, "")

\* ----------------------------------------------------------------- stop_stream
stop_stream(u) ==
    LET task == active_streams[u]
    IN /\ NoCancelPending
       /\ UNCHANGED <<baseVars, userVars, portVars, nextTask>>
       /\ active_streams' = [active_streams EXCEPT ![u] = 0]
       /\ IF task # 0
          THEN /\ tasks' = [tasks EXCEPT ![task].cancel = (tasks[task].pc # "done")]
               /\ last' = Op("stop_stream", u, task, "Live stream stopped.")
          ELSE /\ UNCHANGED tasks
               /\ last' = Op("stop_stream", u, 0, "You don't have an active stream.")

\* ---------------------------------------------------------- _websocket_handler
\* the task t moves to pc; with pc = "done" it went through its finally clause
TaskTo(t, pc, exit) ==
    /\ tasks' = [tasks EXCEPT ![t] = [user |-> tasks[t].user, pc |-> pc,
                                      cancel |-> FALSE, exit |-> exit]]
    /\ active_streams' = IF pc = "done" THEN Finally(active_streams, tasks[t].user)
                         ELSE active_streams
    /\ last' = OpArg("websocket_handler", tasks[t].user, pc, exit)
    /\ UNCHANGED <<baseVars, userVars, portVars, nextTask>>

\* CancelledError is thrown into the coroutine at the await it is suspended in
task_cancelled(t) ==
    /\ tasks[t].cancel
    /\ CASE tasks[t].pc = "new" ->
              \* the coroutine never entered its try block: no finally
              /\ tasks' = [tasks EXCEPT ![t] = [@ EXCEPT !.pc = "done",
                               !.cancel = FALSE, !.exit = "cancelled"]]
              /\ last' = OpArg("websocket_handler", tasks[t].user, "done", "cancelled")
              /\ UNCHANGED <<baseVars, userVars, portVars, nextTask, active_streams>>
         [] tasks[t].pc \in {"greet", "loop"} ->
              \* the async with block is left first: the connection is closed
              TaskTo(t, "close", "cancelled")
         [] OTHER -> TaskTo(t, "done", "cancelled")

\* the await the task is suspended in returns or raises
TaskEvents == {"ok", "raise", "closed"}

task_step(t, event) ==
    /\ ~tasks[t].cancel
    /\ CASE tasks[t].pc = "new" -> event = "ok" /\ TaskTo(t, "connect", "")
         [] tasks[t].pc = "connect" ->
              \/ event = "ok" /\ TaskTo(t, "greet", "")
              \/ event = "raise" /\ TaskTo(t, "report", "failed")
         [] tasks[t].pc = "greet" ->
              \/ event = "ok" /\ TaskTo(t, "loop", "")
              \/ event = "raise" /\ TaskTo(t, "close", "failed")
         [] tasks[t].pc = "loop" ->
              \/ event = "raise" /\ TaskTo(t, "close", "failed")
              \/ event = "closed" /\ TaskTo(t, "close", "closed")
         [] tasks[t].pc = "close" ->
              /\ event = "ok"
              /\ IF tasks[t].exit = "failed" THEN TaskTo(t, "report", "failed")
                 ELSE TaskTo(t, "done", tasks[t].exit)
         [] tasks[t].pc = "report" ->
              event \in {"ok", "raise"} /\ TaskTo(t, "done", "failed")
         [] OTHER -> FALSE

NextStreams ==
    \/ \E u \in Users, readOk \in BOOLEAN, hasArgs \in BOOLEAN :
          livestream(u, readOk, hasArgs)
    \/ \E u \in Users : stop_stream(u)
    \/ \E t \in TaskIds : task_cancelled(t)
    \/ \E t \in TaskIds, event \in TaskEvents : task_step(t, event)

SpecStreams == InitJobs /\ [][NextStreams]_vars

\* ===================================================================== users
\* check_banned_status: SELECT is_banned FROM users WHERE telegram_id = ?
IsBanned(user_id) ==
    \E r \in users : r.telegram_id = user_id /\ r.is_banned = 1

\* the decorator: the request of a banned user is dropped without a reply,
\* any other request goes to the handler f
check_banned_status(user_id, op, f) ==
    IF IsBanned(user_id)
    THEN /\ last' = Op(op, user_id, 0, "")
         /\ UNCHANGED <<baseVars, streamVars, userVars, portVars>>
    ELSE f

\* _ensure_user_exists: INSERT OR IGNORE INTO users (telegram_id, username,
\* tier): is_banned takes its default 0
EnsureUserExists(table, user_id) ==
    IF \E r \in table : r.telegram_id = user_id THEN table
    ELSE table \cup {[telegram_id |-> user_id, is_banned |-> 0]}

\* ----------------------------------------------------------------------- start
start(u) ==
    /\ users' = EnsureUserExists(users, u)
    /\ Commit(connSubs, connPays)
    /\ last' = Op("start", u, 0, "Welcome")
    /\ UNCHANGED <<now, tz, nextInvoice, pending, failed, sigVars, alertVars,
                   streamVars, portVars, tailVars>>

\* -------------------------------------------------------- ban_user, unban_user
\* UPDATE users SET is_banned = ? WHERE telegram_id = ?
SetBanned(table, user_id, flag) ==
    {IF r.telegram_id = user_id THEN [r EXCEPT !.is_banned = flag] ELSE r :
        r \in table}

ban_user(form, user_id_to_ban) ==
    /\ UNCHANGED <<now, tz, nextInvoice, pending, failed, sigVars, alertVars,
                   streamVars, portVars, tailVars>>
    /\ CASE form = "usage" ->
              /\ last' = Op("ban_user", 0, 0, "Usage")
              /\ UNCHANGED <<storeVars, users>>
         [] form = "ValueError" ->
              /\ last' = Op("ban_user", 0, 0, "Invalid User ID.")
              /\ UNCHANGED <<storeVars, users>>
         [] OTHER ->
              /\ users' = SetBanned(users, user_id_to_ban, 1)
              /\ Commit(connSubs, connPays)
              /\ last' = Op("ban_user", 0, user_id_to_ban,
                            IF \E r \in users : r.telegram_id = user_id_to_ban
                            THEN "has been banned" ELSE "not found")

unban_user(form, user_id_to_unban) ==
    /\ UNCHANGED <<now, tz, nextInvoice, pending, failed, sigVars, alertVars,
                   streamVars, portVars, tailVars>>
    /\ CASE form = "usage" ->
              /\ last' = Op("unban_user", 0, 0, "Usage")
              /\ UNCHANGED <<storeVars, users>>
         [] form = "ValueError" ->
              /\ last' = Op("unban_user", 0, 0, "Invalid User ID.")
              /\ UNCHANGED <<storeVars, users>>
         [] OTHER ->
              /\ users' = SetBanned(users, user_id_to_unban, 0)
              /\ Commit(connSubs, connPays)
              /\ last' = Op("unban_user", 0, user_id_to_unban,
                            IF \E r \in users : r.telegram_id = user_id_to_unban
                            THEN "has been unbanned" ELSE "not found")

\* ------------------------------------------------------------- unknown_command
\* MessageHandler(filters.COMMAND, ...), registered last: it takes every
\* command no CommandHandler took, an admin command of a user outside
\* ADMIN_IDS included.  It is not wrapped in check_banned_status.
unknown_command(u) ==
    /\ last' = Op("unknown_command", u, 0, "Sorry, I didn't understand that command.")
    /\ UNCHANGED <<baseVars, streamVars, userVars, portVars>>

\* the requests of the users, as _register_handlers routes them; the alert,
\* stream and payment handlers are each explored while the tables of the
\* other two are empty
NoAlertRows == alerts = {} /\ nextAlertId = 1
NoStreamTasks == nextTask = 1
NoPaymentRows ==
    /\ pending = [u \in Users |-> NoPayment]
    /\ connPays = {} /\ connSubs = {}
    /\ nextInvoice = 1

NextBan ==
    \/ \E u \in Users : check_banned_status(u, "start", start(u))
    \/ \E form \in ArgForms \ {"ok"} : ban_user(form, 0)
    \/ \E u \in Users : ban_user("ok", u)
    \/ \E form \in ArgForms \ {"ok"} : unban_user(form, 0)
    \/ \E u \in Users : unban_user("ok", u)
    \/ \E u \in Users : unknown_command(u)
    \/ /\ NoStreamTasks /\ NoPaymentRows
       /\ \E u \in Users :
             \/ check_banned_status(u, "set_alert",
                    set_alert(u, TRUE, "ok", <<"BTCUSDT", 110, "above">>))
             \/ \E id \in AlertIds :
                    check_banned_status(u, "remove_alert",
                                        remove_alert(u, TRUE, "ok", id))
    \/ /\ NoAlertRows /\ NoPaymentRows
       /\ \/ \E u \in Users :
                \/ check_banned_status(u, "livestream", livestream(u, TRUE, TRUE))
                \/ check_banned_status(u, "stop_stream", stop_stream(u))
          \/ \E t \in TaskIds : task_cancelled(t)
    \/ /\ NoAlertRows /\ NoStreamTasks
       /\ \E u \in Payers :
             \/ check_banned_status(u, "handle_payment_selection",
                    handle_payment_selection(u, "vip_1month", TRUE))
             \/ check_banned_status(u, "check_payment_status",
                    check_payment_status(u, "paid", "ok"))

SpecBan == InitJobs /\ [][NextBan]_vars

\* ================================================================= portfolio
\* /addposition <SYMBOL> <amount> <price>, the three words as float() reads
\* them
PositionArgs ==
    {<<"btcusdt", 1, 100>>, <<"ETHUSDT", 2, 90>>, <<"BTCUSDT", -1, 0>>}

\* INSERT INTO portfolio (user_id, symbol, amount, entry_price)
PositionRow(id, user_id, args) ==
    [id |-> id, user_id |-> user_id, symbol |-> Upper(args[1]),
     amount |-> args[2], entry_price |-> args[3]]

\* ---------------------------------------------------------------- add_position
add_position(u, readOk, form, args) ==
    /\ UNCHANGED <<now, tz, nextInvoice, pending, failed, sigVars, alertVars,
                   streamVars, userVars, tailVars>>
    /\ IF ~VipStatus(u, readOk)
       THEN /\ last' = Op("add_position", u, 0, UpgradePrompt)
            /\ UNCHANGED <<storeVars, portVars>>
       ELSE CASE form = "usage" ->
                 /\ last' = Op("add_position", u, 0, "Usage")
                 /\ UNCHANGED <<storeVars, portVars>>
            [] form = "ValueError" ->
                 /\ last' = Op("add_position", u, 0, "Invalid amount or price.")
                 /\ UNCHANGED <<storeVars, portVars>>
            [] OTHER ->
                 /\ nextPositionId <= MaxPositions
                 /\ portfolio' = portfolio \cup {PositionRow(nextPositionId, u, args)}
                 /\ nextPositionId' = nextPositionId + 1
                 /\ Commit(connSubs, connPays)
                 /\ last' = Op("add_position", u, nextPositionId, "Added")

\* ------------------------------------------------------------- remove_position
\* DELETE FROM portfolio WHERE id = ? AND user_id = ?
remove_position(u, readOk, form, pos_id) ==
    /\ UNCHANGED <<now, tz, nextInvoice, pending, failed, sigVars, alertVars,
                   streamVars, userVars, nextPositionId, tailVars>>
    /\ IF ~VipStatus(u, readOk)
       THEN /\ last' = Op("remove_position", u, 0, UpgradePrompt)
            /\ UNCHANGED <<storeVars, portfolio>>
       ELSE CASE form = "usage" ->
                 /\ last' = Op("remove_position", u, 0, "Usage")
                 /\ UNCHANGED <<storeVars, portfolio>>
            [] form = "ValueError" ->
                 /\ last' = Op("remove_position", u, 0, "Invalid ID.")
                 /\ UNCHANGED <<storeVars, portfolio>>
            [] OTHER ->
                 /\ portfolio' = DeleteOwned(portfolio, pos_id, u)
                 /\ Commit(connSubs, connPays)
                 /\ last' = Op("remove_position", u, pos_id,
                               IF \E p \in portfolio : p.id = pos_id /\ p.user_id = u
                               THEN "removed" ELSE "Position not found")

\* -------------------------------- my_portfolio, my_alerts, vip_signals, ta_report
\* the VIP commands that only read
my_portfolio(u, readOk) ==
    /\ UNCHANGED <<baseVars, streamVars, userVars, portVars>>
    /\ last' = Op("my_portfolio", u, 0,
                  IF ~VipStatus(u, readOk) THEN UpgradePrompt
                  ELSE IF \A p \in portfolio : p.user_id # u
                       THEN "Your portfolio is empty." ELSE "My Portfolio")

my_alerts(u, readOk) ==
    /\ UNCHANGED <<baseVars, streamVars, userVars, portVars>>
    /\ last' = Op("my_alerts", u, 0,
                  IF ~VipStatus(u, readOk) THEN UpgradePrompt
                  ELSE IF \A a \in alerts : a.user_id # u
                       THEN "You have no active alerts." ELSE "My Active Alerts")

vip_signals(u, readOk, generated) ==
    /\ UNCHANGED <<baseVars, streamVars, userVars, portVars>>
    /\ last' = Op("vip_signals", u, 0,
                  IF ~VipStatus(u, readOk) THEN UpgradePrompt
                  ELSE IF generated THEN "VIP Signals"
                       ELSE "Error generating VIP signals.")

ta_report(u, readOk, hasArgs) ==
    /\ UNCHANGED <<baseVars, streamVars, userVars, portVars>>
    /\ last' = Op("ta_report", u, 0,
                  IF ~VipStatus(u, readOk) THEN UpgradePrompt
                  ELSE IF ~hasArgs THEN "Usage" ELSE "TA report")

PositionIds == 1..MaxPositions

NoPositionRows == portfolio = {} /\ nextPositionId = 1

\* the VIP commands of a user, each behind check_banned_status; the alert,
\* portfolio and stream commands are each explored while the tables of the
\* other two are empty
VipCommands(u) ==
    \/ /\ NoStreamTasks /\ NoPositionRows
       /\ \/ \E form \in ArgForms :
                check_banned_status(u, "set_alert",
                    set_alert(u, TRUE, form, <<"btcusdt", 110, "above">>))
          \/ \E id \in AlertIds :
                check_banned_status(u, "remove_alert",
                                    remove_alert(u, TRUE, "ok", id))
    \/ /\ NoStreamTasks /\ NoAlertRows
       /\ \/ \E form \in ArgForms :
                check_banned_status(u, "add_position",
                    add_position(u, TRUE, form, <<"btcusdt", 1, 100>>))
          \/ \E id \in PositionIds :
                check_banned_status(u, "remove_position",
                                    remove_position(u, TRUE, "ok", id))
    \/ /\ NoAlertRows /\ NoPositionRows
       /\ \E hasArgs \in BOOLEAN :
             check_banned_status(u, "livestream", livestream(u, TRUE, hasArgs))
    \/ check_banned_status(u, "my_portfolio", my_portfolio(u, TRUE))
    \/ check_banned_status(u, "my_alerts", my_alerts(u, TRUE))
    \/ \E generated \in BOOLEAN :
          check_banned_status(u, "vip_signals", vip_signals(u, TRUE, generated))
    \/ \E hasArgs \in BOOLEAN :
          check_banned_status(u, "ta_report", ta_report(u, TRUE, hasArgs))

\* the VIP commands next to the purchase of the one paying user
NextVip ==
    \/ \E u \in Users : VipCommands(u)
    \/ \E u \in Payers :
          check_banned_status(u, "handle_payment_selection",
                              handle_payment_selection(u, "vip_1month", TRUE))
    \/ \E u \in Payers, outcome \in StoreOutcomes :
          check_banned_status(u, "check_payment_status",
                              check_payment_status(u, "paid", outcome))

SpecVip == InitJobs /\ [][NextVip]_vars

\* ============================================================ argument lists
\* /setalert <SYMBOL> <price> <above|below> as sent to the handler next to a
\* well-formed list: a price of zero, a direction that is neither word
InputAlertArgs ==
    {<<"BTCUSDT", 110, "above">>, <<"BTCUSDT", 0, "above">>,
     <<"ETHUSDT", 90, "over">>}

NoSignalRows == signals = {} /\ nextSignalId = 1
NoSubscriptionRows == connSubs = {}

\* the six commands that take numbers and symbols, sent by the admin (who
\* passes both the admin filter and the VIP test), each explored while the
\* tables of the others are empty
NextInput ==
    \/ /\ NoPositionRows /\ NoSignalRows /\ NoSubscriptionRows
       /\ \E a \in ADMIN_IDS :
             \/ \E form \in ArgForms, args \in InputAlertArgs :
                   check_banned_status(a, "set_alert",
                                       set_alert(a, TRUE, form, args))
             \/ \E form \in ArgForms, id \in AlertIds :
                   check_banned_status(a, "remove_alert",
                                       remove_alert(a, TRUE, form, id))
    \/ /\ NoAlertRows /\ NoSignalRows /\ NoSubscriptionRows
       /\ \E a \in ADMIN_IDS :
             \/ \E form \in ArgForms, args \in PositionArgs :
                   check_banned_status(a, "add_position",
                                       add_position(a, TRUE, form, args))
             \/ \E form \in ArgForms, id \in PositionIds :
                   check_banned_status(a, "remove_position",
                                       remove_position(a, TRUE, form, id))
    \/ /\ NoAlertRows /\ NoPositionRows /\ NoSubscriptionRows
       /\ \E form \in ArgForms, args \in SignalArgs : add_signal(form, args)
    \/ /\ NoAlertRows /\ NoPositionRows /\ NoSignalRows
       /\ \E a \in ADMIN_IDS :
             \/ \E form \in GrantForms \ {"ok"} : vip_grant(a, form, 0, 0)
             \/ \E u \in Users, d \in GrantDays : vip_grant(a, "ok", u, d)

SpecInput == InitJobs /\ [][NextInput]_vars

\* ============================================================== the two jobs
\* The jobs share no table and no local: each is explored against the
\* handlers of its own table while the other table is empty and its job idle.
SigQuiet == signals = {} /\ nextSignalId = 1 /\ sigRun = SigIdle
AlertsQuiet == alerts = {} /\ nextAlertId = 1 /\ alertRun = AlertIdle

NextJobs ==
    \/ AlertsQuiet /\ NextSig
    \/ SigQuiet /\ NextAlerts

SpecJobs == InitJobs /\ [][NextJobs]_vars

\* ============================================================ market data
\* The five handlers under @retry_api(max_tries=2, delay=1).  Each has the
\* shape of top_coins: one try around the request to the remote API and the
\* reply with its result, and in its except Exception the reply with the
\* failure message.  An exception reaches retry_api only from that last
\* reply_text.
RetryHandlers ==
    {"top_coins", "market_cap", "trending_coins", "get_price", "price_history"}
max_tries == 2
FailureMessage == "Couldn't fetch. Please try again."

\* the handler takes the command: the first attempt sends its request
retry_api(u, op) ==
    /\ call.pc = "idle"
    /\ call' = [op |-> op, user |-> u, attempt |-> 0, pc |-> "api",
                api_calls |-> 1, api_failed |-> FALSE, sleeps |-> 0,
                last_exception |-> 0]
    /\ UNCHANGED <<restVars, last>>

\* the remote API answers, or the request raises and the except clause of
\* the handler takes over
api_response(ok) ==
    /\ call.pc = "api"
    /\ call' = [call EXCEPT !.pc = IF ok THEN "reply result" ELSE "reply failure",
                            !.api_failed = ~ok]
    /\ UNCHANGED <<restVars, last>>

\* the end of the command: the requests made, whether the last one failed
CallOp(reply) ==
    [op |-> call.op, user |-> call.user, n |-> call.api_calls,
     arg |-> IF call.api_failed THEN "api failed" ELSE "", reply |-> reply,
     prices |-> NoPrices]

\* if attempt < max_tries - 1: await asyncio.sleep(delay)
\* (variant: the sleep after every failed attempt)
SleepsAfterAlways(attempt) == TRUE
SleepsAfter(attempt) == attempt < max_tries - 1

\* for attempt in range(max_tries)
InRange(attempt) == attempt < max_tries

\* the for loop of retry_api goes on after the attempt c.attempt: the next
\* attempt calls the handler again, or the loop is over and last_exception is
\* raised, out of the wrappers
LoopNext(c) ==
    IF InRange(c.attempt + 1)
    THEN /\ call' = [c EXCEPT !.attempt = @ + 1, !.pc = "api",
                              !.api_calls = @ + 1, !.api_failed = FALSE]
         /\ UNCHANGED last
    ELSE /\ last' = [CallOp("raised") EXCEPT !.n = c.last_exception]
         /\ call' = NoCall

\* reply_text returns or raises
reply_text(delivered) ==
    /\ call.pc \in {"reply result", "reply failure"}
    /\ UNCHANGED restVars
    /\ IF delivered
       THEN \* the handler returns, retry_api returns its value
            /\ last' = CallOp(IF call.pc = "reply result" THEN "result"
                              ELSE FailureMessage)
            /\ call' = NoCall
       ELSE IF call.pc = "reply result"
       THEN \* raised inside the try: the except clause replies
            /\ call' = [call EXCEPT !.pc = "reply failure"]
            /\ UNCHANGED last
       ELSE \* raised out of the handler: last_exception = e
            LET c == [call EXCEPT !.last_exception = call.attempt + 1]
            IN IF SleepsAfter(call.attempt)
               THEN /\ call' = [c EXCEPT !.pc = "sleep", !.sleeps = @ + 1]
                    /\ UNCHANGED last
               ELSE LoopNext(c)

\* asyncio.sleep(delay) is over
sleep_done ==
    /\ call.pc = "sleep"
    /\ UNCHANGED restVars
    /\ LoopNext(call)

NextRetry ==
    \/ \E u \in Users, op \in RetryHandlers : retry_api(u, op)
    \/ \E ok \in BOOLEAN : api_response(ok)
    \/ \E delivered \in BOOLEAN : reply_text(delivered)
    \/ sleep_done

SpecRetry == InitJobs /\ [][NextRetry]_vars

\* =============================================================== rate_limit
\* The decorator of price_history, @rate_limit(max_calls=3, time_frame=60):
\* one list calls of the times of the admitted calls, shared by all users.
\* The clock time.time() goes in steps of 20 seconds.
max_calls == 3
time_frame == 3
TooManyRequests == "Too many requests. Please wait a moment."

\* calls[:] = [call for call in calls if call > now - time_frame]
RECURSIVE Recent(_, _)
Recent(list, t) ==
    IF list = <<>> THEN <<>>
    ELSE IF Head(list) > t - time_frame
         THEN <<Head(list)>> \o Recent(Tail(list), t)
         ELSE Recent(Tail(list), t)

\* if len(calls) >= max_calls (variant: >)
LimitReachedLate(list) == Len(list) > max_calls
LimitReached(list) == Len(list) >= max_calls

\* a command of user u reaches the wrapper: it is rejected, or its time is
\* appended and the wrapped handler is entered
rate_limit(u) ==
    LET recent == Recent(calls, wall)
    IN /\ UNCHANGED <<unrateVars, wall>>
       /\ IF LimitReached(recent)
          THEN /\ calls' = recent
               /\ UNCHANGED entered
               /\ last' = Op("rate_limit", u, Len(recent), TooManyRequests)
          ELSE /\ calls' = Append(recent, wall)
               /\ entered' = Append(entered, wall)
               /\ last' = Op("rate_limit", u, Len(recent) + 1, "entered")

\* 20 seconds pass
WallTick ==
    /\ wall < MaxWall
    /\ wall' = wall + 1
    /\ last' = Op("tick", 0, 0, "")
    /\ UNCHANGED <<unrateVars, calls, entered>>

NextRate ==
    \/ \E u \in Users : check_banned_status(u, "rate_limit", rate_limit(u))
    \/ WallTick

SpecRate == InitJobs /\ [][NextRate]_vars

\* =========================================== check_subscription_expirations
\* The job runs on self.conn, every six hours.  Its one await is the
\* send_message of each reminder: handlers run while it is suspended there.
ReminderGrantDays == {4, 5}    \* the day counts of the grants explored with the job
ReminderSteps == {DayLen}

\* SELECT u.telegram_id, s.tier, s.end_date FROM subscriptions s JOIN users u
\* ON s.user_id = u.telegram_id WHERE datetime(s.end_date) BETWEEN
\* datetime('now', '+3 days') AND datetime('now', '+4 days') AND s.notified = 0
ExpiringSubs(subs, userRows) ==
    {[telegram_id |-> r.user_id, tier |-> r.tier, end_date |-> r.end_date] :
        r \in {s \in subs :
                /\ \E u \in userRows : u.telegram_id = s.user_id
                /\ s.end_date >= sql_now + 3 * DayLen
                /\ s.end_date <= sql_now + 4 * DayLen
                /\ s.notified = 0}}

RECURSIVE SortByUser(_)
SortByUser(rows) ==
    IF rows = {} THEN <<>>
    ELSE LET m == CHOOSE x \in rows : \A y \in rows : x.telegram_id <= y.telegram_id
         IN <<m>> \o SortByUser(rows \ {m})

\* UPDATE subscriptions SET notified = 1 WHERE user_id = ?
SetNotified(subs, user_id) ==
    {IF r.user_id = user_id THEN [r EXCEPT !.notified = 1] ELSE r : r \in subs}

ExpRunAt(rows, i) ==
    IF i > Len(rows) THEN ExpIdle ELSE [pc |-> "send", expiring_subs |-> rows, i |-> i]

\* the run reads the expiring rows; without any it returns, else it sends
\* the first reminder and is suspended in it
check_subscription_expirations_start ==
    LET expiring_subs == SortByUser(ExpiringSubs(connSubs, users))
    IN /\ expRun.pc = "idle"
       /\ expRun' = ExpRunAt(expiring_subs, 1)
       /\ last' = JobOp("check_subscription_expirations", Len(expiring_subs),
                        IF expiring_subs = <<>> THEN "return" ELSE "send", NoPrices)
       /\ UNCHANGED <<unexpVars, storeVars, reminded>>

\* send_message returns (the flag is set and committed) or raises (logged);
\* the loop goes on to the next row of its list
AfterReminder(subs, sub, delivered) ==
    IF delivered THEN SetNotified(subs, sub.telegram_id) ELSE subs

check_subscription_expirations_sent(delivered) ==
    LET sub == expRun.expiring_subs[expRun.i]
    IN /\ expRun.pc = "send"
       /\ IF delivered
          THEN /\ Commit(AfterReminder(connSubs, sub, delivered), connPays)
               /\ reminded' = reminded \cup
                     {[user_id |-> sub.telegram_id, end_date |-> sub.end_date]}
          ELSE /\ connSubs' = AfterReminder(connSubs, sub, delivered)
               /\ UNCHANGED <<subscriptions, payments, connPays, reminded>>
       /\ expRun' = ExpRunAt(expRun.expiring_subs, expRun.i + 1)
       /\ last' = [op |-> "send_reminder", user |-> sub.telegram_id,
                   n |-> sub.end_date, arg |-> "",
                   reply |-> IF delivered THEN "delivered" ELSE "raised",
                   prices |-> NoPrices]
       /\ UNCHANGED unexpVars

\* the job next to /start, the grants of ReminderGrantDays days and the clock;
\* the grants explored end later than the row they replace, so that a user
\* and an end time name one term
NextExp ==
    \/ \E u \in Users : check_banned_status(u, "start", start(u))
    \/ \E a \in ADMIN_IDS, u \in Payers, days \in ReminderGrantDays :
          /\ \A r \in connSubs :
                r.user_id = u => r.end_date < datetime_now + days * DayLen
          /\ vip_grant(a, "ok", u, days)
    \/ \E d \in ReminderSteps : now + d <= MaxExpTime /\ Tick(d)
    \/ check_subscription_expirations_start
    \/ \E delivered \in BOOLEAN : check_subscription_expirations_sent(delivered)

SpecExp == InitJobs /\ [][NextExp]_vars

\* ===================================================== store failures in the jobs
\* A statement on the job's own connection raises sqlite3.Error (the file is
\* locked, the disk is full).  Neither job has a try around its first SELECT,
\* and check_signal_outcomes has none around its UPDATE and commit: the
\* exception leaves the coroutine.

\* the SELECT of check_signal_outcomes raises
check_signal_outcomes_select_failed ==
    /\ sigRun.pc = "idle"
    /\ last' = JobOp("check_signal_outcomes", 0, "raised", NoPrices)
    /\ UNCHANGED <<extVars, now, tz, storeVars, nextInvoice, pending, failed,
                   sigVars, alertVars>>

\* the run resumes with prices and the UPDATE for the signal at position j
\* raises: the rows before j are updated and committed, the rest of the
\* loop and conn.close() are not reached
check_signal_outcomes_update_failed(current_prices, j) ==
    /\ sigRun.pc = "fetch"
    /\ current_prices \in PriceMaps(PairsOf(sigRun.active_signals))
    /\ j \in 1..Len(sigRun.active_signals)
    /\ LET signal == sigRun.active_signals[j]
       IN /\ signal.pair \in DOMAIN current_prices
          /\ HitStatus(signal.direction, current_prices[signal.pair],
                       signal.target_price, signal.stop_loss) # 0
    /\ signals' = SignalLoop(SubSeq(sigRun.active_signals, 1, j - 1), 1,
                             current_prices, signals)
    /\ sigRun' = SigIdle
    /\ last' = JobOp("check_signal_outcomes", j, "raised", current_prices)
    /\ UNCHANGED <<extVars, now, tz, storeVars, nextInvoice, pending, failed,
                   nextSignalId, alertVars>>

\* the SELECT of check_alerts raises
check_alerts_select_failed ==
    /\ alertRun.pc = "idle"
    /\ last' = JobOp("check_alerts", 0, "raised", NoPrices)
    /\ UNCHANGED <<extVars, now, tz, storeVars, nextInvoice, pending, failed,
                   sigVars, alertVars>>

\* send_message returned and the DELETE or its commit raises: caught by the
\* except of the loop body and logged, the row stays, the loop goes on
check_alerts_delete_failed ==
    LET alert == alertRun.alerts[alertRun.i]
    IN /\ alertRun.pc = "send"
       /\ alertRun' = AlertRunAt(alertRun.alerts,
                        AlertLoop(alertRun.alerts, alertRun.i + 1,
                                  alertRun.current_prices),
                        alertRun.current_prices)
       /\ last' = [op |-> "send_message", user |-> alert.user_id,
                   n |-> alert.id, arg |-> "", reply |-> "delete failed",
                   prices |-> alertRun.current_prices]
       /\ UNCHANGED <<extVars, now, tz, storeVars, nextInvoice, pending, failed,
                      sigVars, alerts, nextAlertId>>

NextSigFail ==
    \/ check_signal_outcomes_select_failed
    \/ \E S \in SUBSET Symbols : \E current_prices \in [S -> Prices] :
          \E j \in SignalIds : check_signal_outcomes_update_failed(current_prices, j)

NextAlertsFail ==
    \/ check_alerts_select_failed
    \/ check_alerts_delete_failed

\* the two jobs with store failures, each while the other's table is empty
NextFail ==
    \/ AlertsQuiet /\ (NextSig \/ NextSigFail)
    \/ SigQuiet /\ (NextAlerts \/ NextAlertsFail)

SpecFail == InitJobs /\ [][NextFail]_vars

\* ========================================================= the whole program
Next ==
    NextSub \/ NextSig \/ NextAlerts \/ NextStreams \/ NextBan \/ NextVip
    \/ NextInput \/ NextFail \/ NextRetry \/ NextRate \/ NextExp

Spec == Init /\ [][Next]_vars

\* ===================================================================== claims

\* C1: payment confirmation is atomic: when the subscription upsert or the
\* payment insert of a confirmation fails, neither the Subscription row nor
\* the Payment row of that confirmation is in the committed store in any later
\* state, whatever is committed afterwards on the same connection.
C1_ConfirmationAtomic ==
    failed # NoConf =>
        /\ \A r \in subscriptions :
              ~(/\ r.user_id = failed.user_id
                /\ r.payment_id = failed.payment_id
                /\ r.start_date = failed.start_date)
        /\ \A p \in payments :
              ~(p.id = failed.pay_id /\ p.payment_id = failed.payment_id)

\* C2: in every state the subscriptions table, committed and as self.conn
\* sees it, holds at most one row per user.
RowsOf(table, u) == {r \in table : r.user_id = u}
C2_OneRowPerUser ==
    \A u \in Users :
        /\ Cardinality(RowsOf(subscriptions, u)) <= 1
        /\ Cardinality(RowsOf(connSubs, u)) <= 1
\* a user with two confirmed payments and a single subscription row
C2_Witness ==
    \E u \in Users :
        /\ Cardinality(RowsOf(payments, u)) >= 2
        /\ Cardinality(RowsOf(subscriptions, u)) = 1

\* C3: for a user outside the admin list, _check_vip_status (its store read
\* succeeding) returns true if and only if the committed subscriptions table
\* holds a row of that user whose end time is at or after the current time,
\* both read on the clock that wrote the row.
C3_VipIffActiveRow ==
    (last.op = "check_vip_status" /\ last.user \notin ADMIN_IDS /\ last.n = 1) =>
        ((last.reply = "True") <=>
            \E r \in subscriptions :
                r.user_id = last.user /\ r.end_date >= datetime_now)

\* C4: for every identity of the admin list _check_vip_status returns true,
\* also without a subscription row and when the store read fails.
C4_AdminAlwaysVip ==
    (last.op = "check_vip_status" /\ last.user \in ADMIN_IDS) => last.reply = "True"
\* an admin without a row is checked while the store read fails
C4_Witness ==
    /\ last.op = "check_vip_status"
    /\ last.user \in ADMIN_IDS
    /\ last.n = 0
    /\ RowsOf(connSubs, last.user) = {}
    /\ last.reply = "True"

\* C5: for every day count d that vip_grant accepts, right after
\* vip_grant(u, d) _check_vip_status(u) returns true and the stored end time
\* is the stored start time plus d days.
C5_GrantEntitles ==
    (last.op = "vip_grant" /\ last.reply = "Granted") =>
        /\ VipStatus(last.user, TRUE)
        /\ \E r \in connSubs :
              /\ r.user_id = last.user
              /\ r.end_date = r.start_date + last.n * DayLen

\* C6: the payment flow writes a Subscription row and a Payment row only when
\* check_invoice returned an invoice with status "paid"; with any other answer
\* (None included) no row is written or changed and the pending payment
\* record is kept.
C6_OnlyPaidWrites ==
    [][(last'.op = "check_payment_status" /\ last'.arg # "paid") =>
          UNCHANGED <<subscriptions, payments, connSubs, connPays, pending>>]_vars
\* the gateway was unavailable for a pending payment, which is kept
C6_Witness ==
    /\ last.op = "check_payment_status"
    /\ last.arg = "none"
    /\ pending[last.user] # NoPayment
    /\ subscriptions = {}

\* ------------------------------------------------ steps of the signal job
\* the step in which a run of check_signal_outcomes, answered with prices,
\* goes through its snapshot
SigProcessed == sigRun.pc = "fetch" /\ last'.op = "check_signal_outcomes"
                /\ last'.reply = "done"
\* signal s was read as open by the run that is suspended in its fetch
ReadOpen(s) ==
    \E i \in 1..Len(sigRun.active_signals) : sigRun.active_signals[i].id = s.id
\* the outcome the resolution rule gives a signal at price p
Outcome(s, p) ==
    CASE s.direction = "long" /\ p >= s.target_price -> 1
      [] s.direction = "long" /\ p < s.target_price /\ p <= s.stop_loss -> -1
      [] s.direction = "short" /\ p <= s.target_price -> 1
      [] s.direction = "short" /\ p > s.target_price /\ p >= s.stop_loss -> -1
      [] OTHER -> 0
HitTargetAfter(s) == {t.hit_target : t \in {x \in signals' : x.id = s.id}}

\* C7: signal resolution is monotone: in every step, a signal whose
\* hit_target is non-zero keeps that value as long as its row exists, whatever
\* prices the later runs of check_signal_outcomes are answered with.
C7_ResolutionMonotone ==
    [][\A s \in signals : s.hit_target # 0 =>
          \A t \in signals' : t.id = s.id => t.hit_target = s.hit_target]_vars
\* a run was answered, for the pair of a signal resolved as hit-target, with
\* a price that meets the signal's stop condition and not its target
\* condition: the signal is still hit-target
C7_Witness ==
    /\ last.op = "check_signal_outcomes"
    /\ last.reply = "done"
    /\ \E s \in signals :
          /\ s.hit_target = 1
          /\ s.pair \in DOMAIN last.prices
          /\ Outcome(s, last.prices[s.pair]) = -1

\* C8: a run of check_signal_outcomes sets, for every long or short signal
\* it read as open whose pair has a returned price p, the outcome of the
\* rule: long: p >= target hit-target, else p <= stop hit-stop, else open;
\* short: p <= target hit-target, else p >= stop hit-stop, else open.
C8_ResolutionRule ==
    [][SigProcessed =>
          \A s \in signals :
              (/\ ReadOpen(s)
               /\ s.direction \in {"long", "short"}
               /\ s.pair \in DOMAIN last'.prices)
              => HitTargetAfter(s) = {Outcome(s, last'.prices[s.pair])}]_vars
\* one run, answered 111 for BTCUSDT, resolved the long 100/110/90 signal as
\* hit-target and the short 100/90/110 signal as hit-stop
C8_Witness ==
    /\ last.op = "check_signal_outcomes"
    /\ last.reply = "done"
    /\ last.n = 2
    /\ "BTCUSDT" \in DOMAIN last.prices
    /\ last.prices["BTCUSDT"] = 111
    /\ \E s, t \in signals :
          /\ s.pair = "BTCUSDT" /\ s.direction = "long"
          /\ s.target_price = 110 /\ s.stop_loss = 90 /\ s.hit_target = 1
          /\ t.pair = "BTCUSDT" /\ t.direction = "short"
          /\ t.target_price = 90 /\ t.stop_loss = 110 /\ t.hit_target = -1

\* the target condition and the stop condition of a signal's direction
TargetCondition(s, p) ==
    \/ s.direction = "long" /\ p >= s.target_price
    \/ s.direction = "short" /\ p <= s.target_price
StopCondition(s, p) ==
    \/ s.direction = "long" /\ p <= s.stop_loss
    \/ s.direction = "short" /\ p >= s.stop_loss

\* C9: when the returned price of an open signal meets the target condition
\* and the stop condition of its direction at once, the run records
\* hit-target (1), never hit-stop (-1).
C9_TargetBeforeStop ==
    [][SigProcessed =>
          \A s \in signals :
              (/\ ReadOpen(s)
               /\ s.pair \in DOMAIN last'.prices
               /\ TargetCondition(s, last'.prices[s.pair])
               /\ StopCondition(s, last'.prices[s.pair]))
              => HitTargetAfter(s) = {1}]_vars
\* the only signal, long with target 90 below stop 110, was answered 105,
\* which meets both conditions, and is hit-target
C9_Witness ==
    /\ last.op = "check_signal_outcomes"
    /\ last.reply = "done"
    /\ nextSignalId = 2
    /\ \E s \in signals :
          /\ s.direction = "long"
          /\ s.pair \in DOMAIN last.prices
          /\ last.prices[s.pair] = 105
          /\ TargetCondition(s, 105) /\ StopCondition(s, 105)
          /\ s.hit_target = 1

\* ------------------------------------------------- steps of the alert job
Min(S) == CHOOSE x \in S : \A y \in S : x <= y
\* positions of the snapshot rows whose symbol has a price that triggers them
AlertsDue(rows, prices) ==
    {j \in 1..Len(rows) :
        /\ rows[j].symbol \in DOMAIN prices
        /\ \/ rows[j].direction = "above" /\ prices[rows[j].symbol] > rows[j].target_price
           \/ rows[j].direction = "below" /\ prices[rows[j].symbol] < rows[j].target_price}
\* the run is suspended in the notification of the first due row after
\* position i, or has returned when there is none
AtNextDue(run, rows, prices, i) ==
    LET D == {j \in AlertsDue(rows, prices) : j > i}
    IN IF D = {} THEN run.pc = "idle"
       ELSE run.pc = "send" /\ run.i = Min(D) /\ run.alerts = rows
            /\ run.current_prices = prices
AlertsPriced == alertRun.pc = "fetch" /\ last'.op = "check_alerts"
                /\ last'.reply = "prices"
AlertSent == alertRun.pc = "send" /\ last'.op = "send_message"

\* C10: when the batched price answer omits a requested symbol, the run
\* leaves every signal and every alert of that symbol unchanged (no outcome
\* write, no notification, no delete) and still evaluates the rows of the
\* other symbols: the signals with a price get the outcome of the rule, the
\* alerts with a triggering price are notified one after the other.
C10_OmittedSymbolSkipped ==
    [][/\ SigProcessed =>
            /\ \A s \in signals :
                  s.pair \notin DOMAIN last'.prices => s \in signals'
            /\ \A s \in signals :
                  (/\ ReadOpen(s)
                   /\ s.pair \in DOMAIN last'.prices
                   /\ Outcome(s, last'.prices[s.pair]) # 0)
                  => HitTargetAfter(s) = {Outcome(s, last'.prices[s.pair])}
            /\ alerts' = alerts
       /\ AlertsPriced =>
            /\ alerts' = alerts /\ signals' = signals
            /\ AtNextDue(alertRun', alertRun.alerts, last'.prices, 0)
       /\ AlertSent =>
            /\ alertRun.alerts[alertRun.i].symbol \in DOMAIN alertRun.current_prices
            /\ \A a \in alerts :
                  a.id # alertRun.alerts[alertRun.i].id => a \in alerts'
            /\ alerts' \subseteq alerts /\ signals' = signals
            /\ AtNextDue(alertRun', alertRun.alerts, alertRun.current_prices,
                         alertRun.i)]_vars
\* a run read two open signals of different pairs and was answered a price
\* for one pair only: that signal is resolved, the other is still open
C10_Witness ==
    /\ last.op = "check_signal_outcomes"
    /\ last.reply = "done"
    /\ last.n = 2
    /\ \E s, t \in signals :
          /\ s.pair \notin DOMAIN last.prices
          /\ s.direction \in {"long", "short"}
          /\ s.hit_target = 0
          /\ t.pair \in DOMAIN last.prices
          /\ t.hit_target # 0

\* the rows and prices a step of the alert run works with, the position it
\* starts after and the position it stops at (Len + 1: the run returned)
StepRows == alertRun.alerts
StepPrices == IF alertRun.pc = "fetch" THEN last'.prices ELSE alertRun.current_prices
StepFrom == IF alertRun.pc = "fetch" THEN 0 ELSE alertRun.i
StepTo == IF alertRun'.pc = "send" THEN alertRun'.i ELSE Len(alertRun.alerts) + 1
StrictlyBeyond(a, p) ==
    \/ a.direction = "above" /\ p > a.target_price
    \/ a.direction = "below" /\ p < a.target_price

\* C11: check_alerts triggers (notifies) an alert whose symbol has a price if
\* and only if direction = above and price > target, or direction = below and
\* price < target; a price equal to the target never triggers it.
C11_StrictTrigger ==
    [][(AlertsPriced \/ AlertSent) =>
          \A j \in (StepFrom + 1)..Len(StepRows) :
              (j <= StepTo /\ StepRows[j].symbol \in DOMAIN StepPrices) =>
                 /\ (j = StepTo) <=>
                       StrictlyBeyond(StepRows[j], StepPrices[StepRows[j].symbol])
                 /\ StepPrices[StepRows[j].symbol] = StepRows[j].target_price
                       => j # StepTo]_vars
\* a run that read the only alert was answered a price equal to the alert's
\* target and returned without a notification
C11_Witness ==
    /\ last.op = "check_alerts"
    /\ last.reply = "prices"
    /\ last.n = 1
    /\ nextAlertId = 2
    /\ alertRun.pc = "idle"
    /\ \E a \in alerts :
          /\ a.symbol \in DOMAIN last.prices
          /\ last.prices[a.symbol] = a.target_price

C13_SlotFreed ==
    \A u \in Users :
        active_streams[u] # 0 => tasks[active_streams[u]].pc # "done"
\* three tasks of a user have ended, one cancelled by /stopstream, one after
\* a remote close, one after a failure, and the user has no entry
C13_Witness ==
    /\ \E u \in Users :
          /\ active_streams[u] = 0
          /\ \A e \in {"cancelled", "closed", "failed"} :
                \E t \in TaskIds :
                    tasks[t].user = u /\ tasks[t].pc = "done" /\ tasks[t].exit = e

\* a task that streams or is about to: created, not cancelled, not yet
\* leaving its connection
Streaming(t) ==
    tasks[t].pc \in {"new", "connect", "greet", "loop"} /\ ~tasks[t].cancel

\* C14: in every state every streaming task of a user is the task registered
\* for that user in active_streams; hence a user has at most one streaming
\* task and /stopstream reaches it.
C14_OneRegisteredTask ==
    \A t \in TaskIds :
        Streaming(t) => active_streams[tasks[t].user] = t

\* the commands and button presses of users, by the name of the handler that
\* took them, and the user who sent the request of a step: an admin command
\* comes from the one member of ADMIN_IDS
UserRequests ==
    {"start", "set_alert", "remove_alert", "livestream", "stop_stream",
     "handle_payment_selection", "check_payment_status", "unknown_command"}
AdminRequests == {"ban_user", "unban_user"}
Requester ==
    IF last'.op \in AdminRequests THEN CHOOSE a \in ADMIN_IDS : TRUE
    ELSE last'.user

\* C15: a request of a user whose is_banned flag is set gets no reply and
\* changes no table and no stream: whichever handler takes it, the step
\* leaves users, subscriptions, payments, alerts, active_streams and the
\* tasks as they were.
C15_BannedDenied ==
    [][(last'.op \in UserRequests \cup AdminRequests /\ IsBanned(Requester)) =>
          /\ last'.reply = ""
          /\ UNCHANGED <<users, storeVars, pending, alerts, active_streams,
                         tasks>>]_vars

\* the VIP-only commands, by handler
VipOps ==
    {"livestream", "add_position", "remove_position", "set_alert",
     "remove_alert", "vip_signals", "ta_report", "my_portfolio", "my_alerts"}

\* a user without the entitlement: not an admin, and no row of the
\* subscriptions table that ends at or after the current time
NotEntitled(u) ==
    /\ u \notin ADMIN_IDS
    /\ ~\E r \in subscriptions : r.user_id = u /\ r.end_date >= datetime_now

\* C16: a VIP-only command of a user without the entitlement is answered
\* with the upgrade prompt and nothing else: the step inserts and deletes no
\* portfolio row and no alert row and creates no stream task.
C16_PromptOnly ==
    [][(last'.op \in VipOps /\ NotEntitled(last'.user)) =>
          /\ last'.reply = UpgradePrompt
          /\ UNCHANGED <<alerts, portfolio, active_streams, tasks>>]_vars

\* C17: no table holds a row made from a malformed argument list: every
\* alert row has a positive price and the direction above or below, every
\* portfolio row a positive amount and a positive entry price, every signal
\* row the direction long or short and positive prices, and every granted
\* subscription a positive number of days.  (A malformed /setalert,
\* /addposition, /addsignal or /vipgrant is rejected and changes no table.)
C17_MalformedRejected ==
    /\ \A a \in alerts :
          a.target_price > 0 /\ a.direction \in {"above", "below"}
    /\ \A p \in portfolio : p.amount > 0 /\ p.entry_price > 0
    /\ \A s \in signals :
          /\ s.direction \in {"long", "short"}
          /\ s.entry_price > 0 /\ s.target_price > 0 /\ s.stop_loss > 0
    /\ \A r \in connSubs : r.end_date > r.start_date

\* C18: no run of check_alerts or check_signal_outcomes ends with an
\* exception that leaves the job, whatever fails in it: the price request, a
\* statement on the store, a notification.
C18_NoJobException ==
    ~(last.op \in {"check_alerts", "check_signal_outcomes"} /\ last.reply = "raised")

\* C19: a market-data command whose request to the remote API fails ends
\* with the failure message only after the request was made max_tries times,
\* and no exception leaves the handler.
C19_RetriedThenMessage ==
    last.op \in RetryHandlers =>
        /\ last.reply # "raised"
        /\ (last.reply = FailureMessage /\ last.arg = "api failed") =>
              last.n = max_tries

\* C20: a confirmed payment leaves the user with the one subscription row
\* that starts at the current time and ends one plan duration later,
\* whatever row the user had before: a renewal during a running term ends
\* at now + duration.
C20_RenewalFromNow ==
    [][(last'.op = "check_payment_status" /\ last'.reply = "Payment confirmed!") =>
          \A r \in subscriptions' :
              r.user_id = last'.user =>
                  /\ r.start_date = datetime_now
                  /\ r.end_date = datetime_now + pending[last'.user].duration]_vars
\* the one-year plan was confirmed at time 0 and again one month later,
\* while the first term was running: the row ends one year after the second
\* confirmation
C20_Witness ==
    /\ last.op = "check_payment_status" /\ last.reply = "Payment confirmed!"
    /\ now = Month1
    /\ Cardinality(RowsOf(payments, last.user)) = 2
    /\ \E r \in subscriptions :
          /\ r.user_id = last.user
          /\ r.start_date = datetime_now
          /\ r.end_date = datetime_now + Year1

\* C21: an accepted /vipgrant changes the subscriptions table in the row of
\* its target user only, which then carries the payment reference
\* admin_grant, and changes no other table: payments, signals, alerts,
\* portfolio and users are as before.
C21_GrantWritesOneRow ==
    [][(last'.op = "vip_grant" /\ last'.reply = "Granted") =>
          /\ payments' = payments
          /\ \A r \in subscriptions' :
                r.user_id # last'.user => r \in subscriptions
          /\ \A r \in subscriptions :
                r.user_id # last'.user => r \in subscriptions'
          /\ \A r \in subscriptions' :
                r.user_id = last'.user => r.payment_id = admin_grant
          /\ UNCHANGED <<signals, alerts, portfolio, users>>]_vars

\* C22: in every state every row of the subscriptions table ends strictly
\* after it starts, whether a payment confirmation or a grant wrote it.
C22_EndAfterStart ==
    \A r \in subscriptions : r.end_date > r.start_date

\* C23: in every state every row of the signals table has the direction
\* long or short, so that the job resolves it by one of its two rules.
C23_DirectionLongOrShort ==
    \A s \in signals : s.direction \in {"long", "short"}

\* a command under retry_api ends in this step
CallEnds == call.pc # "idle" /\ call'.pc = "idle"

\* C24: retry_api calls the wrapped function at most max_tries times; it has
\* slept once before each call but the first and never after the last one;
\* when a call returns, the command ends with that call's result and no
\* further call; and it raises only after max_tries calls have raised, and
\* then the exception of the last of them.
C24_RetryPolicy ==
    [][/\ call'.api_calls <= max_tries
       /\ call'.sleeps <= max_tries - 1
       /\ call'.pc # "idle" =>
             call'.sleeps = IF call'.pc = "sleep" THEN call'.attempt + 1
                            ELSE call'.attempt
       /\ call'.pc # "idle" => call'.api_calls = call'.attempt + 1
       /\ (CallEnds /\ last'.reply # "raised") =>
             /\ call.pc \in {"reply result", "reply failure"}
             /\ last'.n = call.api_calls
       /\ (CallEnds /\ last'.reply = "raised") =>
             /\ call.api_calls = max_tries
             /\ call.pc # "sleep"
             /\ last'.n = max_tries]_vars
\* every call of a command has raised and the command ended by raising
C24_Witness ==
    /\ last.op \in RetryHandlers
    /\ last.reply = "raised"
    /\ last.n = max_tries

\* C25: the payments table holds at most one completed row for each payment
\* reference: an invoice is credited once, however often the user presses
\* 'I Have Paid'.
C25_CreditedOnce ==
    \A p, q \in payments :
        (p.payment_id = q.payment_id /\ p.status = "completed"
            /\ q.status = "completed") => p = q

\* the run of check_alerts calls send_message in this step: it resumes with
\* prices, or comes back from the previous send_message, and its loop stops
\* at an alert to notify
SendStarts ==
    /\ alertRun'.pc = "send"
    /\ alertRun.pc # "send" \/ alertRun'.i # alertRun.i

\* C26: a run of check_alerts sends a notification only for an alert whose
\* row is in the table when the notification is sent: none for an alert that
\* a committed /removealert has deleted, also when the run read its list
\* before the removal.
C26_NoNotificationAfterRemoval ==
    [][SendStarts => alertRun'.alerts[alertRun'.i] \in alerts']_vars

\* C27: a step of a check_alerts run deletes no row but the one whose
\* notification it has just delivered, and a row that is not in the list the
\* run read at its start (an alert set while the run was suspended) is
\* neither deleted nor notified by that run.
C27_RunTouchesOnlyItsSnapshot ==
    [][(alertRun.pc # "idle" /\ last'.op \in {"check_alerts", "send_message"}) =>
          /\ \A a \in alerts \ alerts' :
                /\ AlertSent /\ last'.reply = "delivered"
                /\ a = alertRun.alerts[alertRun.i]
          /\ \A a \in alerts :
                (\A j \in 1..Len(alertRun.alerts) : alertRun.alerts[j] # a) =>
                    /\ a \in alerts'
                    /\ ~(SendStarts /\ alertRun'.alerts[alertRun'.i].id = a.id)]_vars
\* a run has delivered its notification of alert 1 and returned, and the table
\* holds an alert that the prices of the run trigger: it was set while the
\* run was suspended
C27_Witness ==
    /\ last.op = "send_message" /\ last.reply = "delivered" /\ last.n = 1
    /\ alertRun.pc = "idle"
    /\ \E a \in alerts :
          /\ a.symbol \in DOMAIN last.prices
          /\ StrictlyBeyond(a, last.prices[a.symbol])

\* C28: a /removealert or /removeposition of user u leaves every alert row
\* and every portfolio row of the other users in its table, and when the id
\* it names is the id of another user's row the request is answered with
\* 'not found'.
C28_RemoveOwnRowsOnly ==
    [][(last'.op \in {"remove_alert", "remove_position"}) =>
          /\ \A a \in alerts : a.user_id # last'.user => a \in alerts'
          /\ \A p \in portfolio : p.user_id # last'.user => p \in portfolio'
          /\ (/\ last'.op = "remove_alert"
              /\ \E a \in alerts : a.id = last'.n /\ a.user_id # last'.user)
                => last'.reply = "Alert not found"
          /\ (/\ last'.op = "remove_position"
              /\ \E p \in portfolio : p.id = last'.n /\ p.user_id # last'.user)
                => last'.reply = "Position not found"]_vars
\* a user has named the id of another user's alert and was told 'not found',
\* and the alert is in the table
C28_Witness ==
    /\ last.op = "remove_alert" /\ last.reply = "Alert not found"
    /\ \E a \in alerts : a.id = last.n /\ a.user_id # last.user

\* the entries of the handler at the instants t .. t + time_frame - 1
EnteredIn(list, t) ==
    Cardinality({i \in DOMAIN list : list[i] >= t /\ list[i] < t + time_frame})

\* C29: in every window of time_frame the handler behind rate_limit is
\* entered at most max_calls times, all users counted together; a rejected
\* call is answered 'Too many requests', does not enter the handler and is
\* not added to the list of counted calls.
C29_RateLimit ==
    [][/\ \A t \in 0..MaxWall : EnteredIn(entered', t) <= max_calls
       /\ (last'.op = "rate_limit" /\ last'.reply # "entered") =>
             /\ last'.reply = TooManyRequests
             /\ entered' = entered
             /\ Len(calls') <= Len(calls)]_vars
\* a window was filled, has passed, the next window was filled and a further
\* call is rejected
C29_Witness ==
    /\ last.op = "rate_limit" /\ last.reply = TooManyRequests
    /\ Len(entered) > max_calls
    /\ Len(calls) = max_calls

\* C30: check_subscription_expirations sends the expiry reminder at most once
\* per subscription term: a reminder is never delivered for a term that was
\* already reminded, every row whose notified flag is 1 is the row of a term
\* whose reminder was delivered, and a grant leaves the row it writes with
\* notified = 0.
TermOf(r) == [user_id |-> r.user_id, end_date |-> r.end_date]
ReminderDelivered == last'.op = "send_reminder" /\ last'.reply = "delivered"
C30_RemindedOnce ==
    ReminderDelivered => [user_id |-> last'.user, end_date |-> last'.n] \notin reminded
C30_FlagOnlyAfterItsReminder ==
    \A r \in connSubs' : r.notified = 1 => TermOf(r) \in reminded'
C30_GrantResetsFlag ==
    (last'.op = "vip_grant" /\ last'.reply = "Granted") =>
        \A r \in connSubs' : r.user_id = last'.user => r.notified = 0
C30_ReminderOncePerTerm ==
    [][C30_RemindedOnce /\ C30_FlagOnlyAfterItsReminder /\ C30_GrantResetsFlag]_vars

====
